---------------------------- MODULE Spec2Model ----------------------------
(***************************************************************************)
(* A model of the eep modal text editor.  The repository holds the editor  *)
(* twice: src/main.rs (termion backend, "smart indent" backspace, clipped  *)
(* status line) and src/editor/*.rs (crossterm backend, plain backspace,   *)
(* escape-aware status bar).  The variable `variant` says which of the two *)
(* programs is running; every operator that differs between them branches  *)
(* on it.                                                                  *)
(*                                                                         *)
(* Text is a sequence of one-character strings; "ESC" stands for the       *)
(* single character \x1B.                                                  *)
(***************************************************************************)
EXTENDS Integers, Sequences, FiniteSets, TLC

(***************************************************************************)
(* Bounds of the model.                                                    *)
(***************************************************************************)
\* bytes the document may grow to in the event loop, counted as save_file
\* would write it: the characters of its lines and a line ending each
MaxBytes == 3
\* characters of a document drawn as the input of one operation
MaxOpChars == 5
\* lines of a drawn document whose lines hold at most one character
MaxOpLines == 3
\* length of a file text drawn as input of open_file
MaxTextLen == 4
\* lines and columns of the document the drawn viewports look at
MaxView == 3
\* characters of a string visible_length and truncate_visible are applied to
MaxEscLen == 5

(***************************************************************************)
(* usize arithmetic is modular.  TLC's integers have 32 bits, so the model *)
(* keeps 16 bits where the machine keeps 64: every length, index and size  *)
(* of the model is far below either modulus, and a wrapped value is far    *)
(* above every length in both.                                             *)
(***************************************************************************)
UsizeMod == 65536

\* the width of a tab expansion, main.rs:144 / cursor.rs:61 (`for _ in 0..4`)
TabWidth == 4

(***************************************************************************)
(* String constants of the source.                                         *)
(***************************************************************************)
RESET == <<"ESC","[","0","m">>
STATUS_FILENAME_FG == <<"ESC","[","3","8",";","5",";","2","3","1","m">>
STATUS_MODE_FG == <<"ESC","[","3","5",";","5",";","2","1","3","m">>
STATUS_MSG_FG == <<"ESC","[","3","8",";","5",";","2","2","0","m">>
STATUS_CMD_FG == <<"ESC","[","3","8",";","5",";","1","1","7","m">>
STATUS_INFO_FG == <<"ESC","[","3","8",";","5",";","2","5","5","m">>
STATUS_TRANSPARENT_BG == <<"ESC","[","4","9","m">>
NoName == <<"[","N","o"," ","N","a","m","e","]">>
Sep == <<" ","-","-"," ">>
MsgNoFilename == <<"N","o"," ","f","i","l","e","n","a","m","e"," ","s","p","e","c","i","f","i","e","d","."," ","U","s","e"," ",":","w"," ","<","f","i","l","e","n","a","m","e",">">>
MsgUndo == <<"U","n","d","o"," ","n","o","t"," ","i","m","p","l","e","m","e","n","t","e","d"," ","y","e","t">>
MsgSearch == <<"S","e","a","r","c","h"," ","n","o","t"," ","i","m","p","l","e","m","e","n","t","e","d"," ","y","e","t">>
MsgUnknown == <<"U","n","k","n","o","w","n"," ","c","o","m","m","a","n","d",":"," ">>
MsgErr == <<"E","r","r","o","r"," ","s","a","v","i","n","g"," ","f","i","l","e",":"," ">>
MsgSavedPre == <<"S","a","v","e","d"," ","'">>
\* the text of the io::Error a failed fs::write returns
IoErr == <<"p","e","r","m","i","s","s","i","o","n"," ","d","e","n","i","e","d">>

(***************************************************************************)
(* The state: the fields of struct Editor, the process, the environment.   *)
(***************************************************************************)
VARIABLES
    content,            \* Vec<String>: the lines of the document
    cursor_x,           \* column of the cursor (usize)
    cursor_y,           \* row of the cursor (usize)
    mode,               \* "Normal" | "Insert" | "Command"
    status_msg,         \* String
    filename,           \* Option<PathBuf>: [some, path]
    offset_y,           \* first visible row
    offset_x,           \* first visible column
    screen_rows,        \* rows of the content area, as of the last render
    screen_cols,        \* columns of the terminal, as of the last render
    command_buffer,     \* String
    show_command,       \* bool
    tabbed,             \* bool
    show_line_numbers,  \* bool
    run,                \* the process: "running" | "quit" (left the event loop)
                        \*   | "exited" (process::exit) | "panicked"
    written,            \* what the last event did to the file system
    variant,            \* "editor" (src/editor/*.rs) | "main" (src/main.rs)
    overflow_checks,    \* the build: TRUE panics on usize overflow (debug),
                        \*   FALSE wraps (release)
    last_op,            \* "run" in the event loop started by main, which keeps no
                        \*   history; on a drawn input: "input", then the one
                        \*   event or operation applied to it
    snap                \* the editor before that event or operation, and its argument

vars == <<content, cursor_x, cursor_y, mode, status_msg, filename, offset_y,
          offset_x, screen_rows, screen_cols, command_buffer, show_command,
          tabbed, show_line_numbers, run, written, variant,
          overflow_checks, last_op, snap>>

\* Option<PathBuf>
None == [some |-> FALSE, path |-> <<>>]
Some(p) == [some |-> TRUE, path |-> p]

\* no file was written
NoWrite == [result |-> "none", path |-> <<>>, data |-> <<>>]

\* the editor as one value, so that the methods compose
St ==
    [content |-> content, cursor_x |-> cursor_x, cursor_y |-> cursor_y,
     mode |-> mode, status_msg |-> status_msg, filename |-> filename,
     offset_y |-> offset_y, offset_x |-> offset_x,
     screen_rows |-> screen_rows, screen_cols |-> screen_cols,
     command_buffer |-> command_buffer, show_command |-> show_command,
     tabbed |-> tabbed, show_line_numbers |-> show_line_numbers,
     run |-> run, written |-> written]

\* the next state is the editor value e
Commit(e) ==
    /\ content' = e.content
    /\ cursor_x' = e.cursor_x
    /\ cursor_y' = e.cursor_y
    /\ mode' = e.mode
    /\ status_msg' = e.status_msg
    /\ filename' = e.filename
    /\ offset_y' = e.offset_y
    /\ offset_x' = e.offset_x
    /\ screen_rows' = e.screen_rows
    /\ screen_cols' = e.screen_cols
    /\ command_buffer' = e.command_buffer
    /\ show_command' = e.show_command
    /\ tabbed' = e.tabbed
    /\ show_line_numbers' = e.show_line_numbers
    /\ run' = e.run
    /\ written' = e.written

\* a panic ends the process; what the handler had done to the fields is lost with it
Panic(e) == [e EXCEPT !.run = "panicked"]

(***************************************************************************)
(* std: String, Vec and str, with their panics.                            *)
(***************************************************************************)
\* usize::saturating_sub
SatSub(a, b) == IF a >= b THEN a - b ELSE 0

\* a - b on usize in a release build; a debug build panics when a < b
WrapSub(a, b) == IF a >= b THEN a - b ELSE a - b + UsizeMod

\* a + b on usize in a release build
WrapAdd(a, b) == (a + b) % UsizeMod

\* String::remove(idx), idx counted from 0; the caller checks idx < len
StrRemove(s, idx) == SubSeq(s, 1, idx) \o SubSeq(s, idx + 2, Len(s))

\* String::insert(idx, c), idx counted from 0; the caller checks idx <= len
StrInsert(s, idx, c) == SubSeq(s, 1, idx) \o <<c>> \o SubSeq(s, idx + 1, Len(s))

\* Vec::remove(idx)
VecRemove(v, idx) == SubSeq(v, 1, idx) \o SubSeq(v, idx + 2, Len(v))

\* Vec::insert(idx, x)
VecInsert(v, idx, x) == SubSeq(v, 1, idx) \o <<x>> \o SubSeq(v, idx + 1, Len(v))

\* self.content[row], row counted from 0
Line(e, row) == e.content[row + 1]

\* self.content[row] = l
SetLine(e, row, l) == [e EXCEPT !.content[row + 1] = l]

\* char::is_whitespace, on the characters of the model
IsWhitespace(c) == c \in {" ", "\t", "\n", "\r"}

RECURSIVE TrimStart(_)
TrimStart(s) ==
    IF s # <<>> /\ IsWhitespace(Head(s)) THEN TrimStart(Tail(s)) ELSE s

RECURSIVE TrimEnd(_)
TrimEnd(s) ==
    IF s # <<>> /\ IsWhitespace(s[Len(s)])
    THEN TrimEnd(SubSeq(s, 1, Len(s) - 1))
    ELSE s

\* str::trim
Trim(s) == TrimStart(TrimEnd(s))

\* str::starts_with
StartsWith(s, p) == Len(s) >= Len(p) /\ SubSeq(s, 1, Len(p)) = p

\* str::ends_with
EndsWith(s, p) == Len(s) >= Len(p) /\ SubSeq(s, Len(s) - Len(p) + 1, Len(s)) = p

\* the pieces of s between the occurrences of "\n" (str::split('\n'))
RECURSIVE SplitNl(_, _)
SplitNl(s, cur) ==
    IF s = <<>> THEN <<cur>>
    ELSE IF Head(s) = "\n" THEN <<cur>> \o SplitNl(Tail(s), <<>>)
    ELSE SplitNl(Tail(s), Append(cur, Head(s)))

\* a line without the "\r" of a "\r\n" line ending
StripCr(l) ==
    IF l # <<>> /\ l[Len(l)] = "\r" THEN SubSeq(l, 1, Len(l) - 1) ELSE l

\* str::lines: split at "\n", the last line ending is optional (an empty last
\* piece is dropped), and a "\r" before a "\n" goes with the line ending
Lines(s) ==
    LET p == SplitNl(s, <<>>)
        n == Len(p)
        stripped == [i \in 1..n |-> IF i < n THEN StripCr(p[i]) ELSE p[i]]
    IN  IF p[n] = <<>> THEN SubSeq(stripped, 1, n - 1) ELSE stripped

\* [String]::join("\n")
RECURSIVE Join(_)
Join(ls) ==
    IF ls = <<>> THEN <<>>
    ELSE IF Len(ls) = 1 THEN ls[1]
    ELSE ls[1] \o <<"\n">> \o Join(Tail(ls))

\* the decimal digits of n, as format!("{}") prints them
RECURSIVE Decimal(_)
Decimal(n) ==
    LET d == <<"0","1","2","3","4","5","6","7","8","9">>[(n % 10) + 1]
    IN  IF n < 10 THEN <<d>> ELSE Append(Decimal(n \div 10), d)

\* " ".repeat(n)
Spaces(n) == [i \in 1..n |-> " "]

(***************************************************************************)
(* Editor: cursor movement and viewport.                                   *)
(***************************************************************************)
\* a clamp that goes to the start of a shorter line
ClampColToStart(e) ==
    LET line_len == Len(Line(e, e.cursor_y))
    IN  IF e.cursor_x > line_len THEN [e EXCEPT !.cursor_x = 0] ELSE e

\* the clamp that ends move_cursor
ClampCol(e) ==
    LET line_len == Len(Line(e, e.cursor_y))
    IN  IF e.cursor_x > line_len THEN [e EXCEPT !.cursor_x = line_len] ELSE e

\* Up that goes round to the last line from the first
MoveUpWraps(e) ==
    IF e.cursor_y > 0
    THEN [e EXCEPT !.cursor_y = e.cursor_y - 1]
    ELSE [e EXCEPT !.cursor_y = Len(e.content) - 1]

\* the Key::Up arm of move_cursor
MoveUp(e) ==
    IF e.cursor_y > 0
    THEN [e EXCEPT !.cursor_y = e.cursor_y - 1]
    ELSE e

\* the Key::Down arm of move_cursor
MoveDown(e) ==
    IF e.cursor_y < Len(e.content) - 1
    THEN [e EXCEPT !.cursor_y = e.cursor_y + 1]
    ELSE e

\* Left that goes up a line without going to its end
MoveLeftToLineStart(e) ==
    IF e.cursor_x > 0
    THEN [e EXCEPT !.cursor_x = e.cursor_x - 1]
    ELSE IF e.cursor_y > 0
    THEN [e EXCEPT !.cursor_y = e.cursor_y - 1]
    ELSE e

\* the Key::Left arm of move_cursor
MoveLeft(e) ==
    IF e.cursor_x > 0
    THEN [e EXCEPT !.cursor_x = e.cursor_x - 1]
    ELSE IF e.cursor_y > 0
    THEN [e EXCEPT !.cursor_y = e.cursor_y - 1,
                   !.cursor_x = Len(Line(e, e.cursor_y - 1))]
    ELSE e

\* Right that goes down a line without going to its start
MoveRightKeepsCol(e) ==
    IF e.cursor_x < Len(Line(e, e.cursor_y))
    THEN [e EXCEPT !.cursor_x = e.cursor_x + 1]
    ELSE IF e.cursor_y < Len(e.content) - 1
    THEN [e EXCEPT !.cursor_y = e.cursor_y + 1]
    ELSE e

\* the Key::Right arm of move_cursor
MoveRight(e) ==
    IF e.cursor_x < Len(Line(e, e.cursor_y))
    THEN [e EXCEPT !.cursor_x = e.cursor_x + 1]
    ELSE IF e.cursor_y < Len(e.content) - 1
    THEN [e EXCEPT !.cursor_y = e.cursor_y + 1, !.cursor_x = 0]
    ELSE e

\* Editor::move_cursor; direction is "Up", "Down", "Left", "Right" or "Other"
move_cursor(e, direction) ==
    LET moved ==
            CASE direction = "Up" -> MoveUp(e)
              [] direction = "Down" -> MoveDown(e)
              [] direction = "Left" -> MoveLeft(e)
              [] direction = "Right" -> MoveRight(e)
              [] OTHER -> e
    IN  ClampCol(moved)

\* one axis of Editor::scroll: the offset after reconciling it with the cursor.
\* `cursor >= offset + size` is evaluated on usize: the sum wraps in a release
\* build (a debug build cannot reach a sum that large).
ScrollAxisByOne(cursor, offset, size) ==
    IF cursor < offset THEN cursor
    ELSE IF cursor >= WrapAdd(offset, size) THEN offset + 1
    ELSE offset

ScrollAxis(cursor, offset, size) ==
    IF cursor < offset THEN cursor
    ELSE IF cursor >= WrapAdd(offset, size) THEN WrapAdd(WrapSub(cursor, size), 1)
    ELSE offset

\* Editor::scroll
scroll(e) ==
    [e EXCEPT !.offset_y = ScrollAxis(e.cursor_y, e.offset_y, e.screen_rows),
              !.offset_x = ScrollAxis(e.cursor_x, e.offset_x, e.screen_cols)]

\* Editor::handle_mouse_event; button is "WheelUp", "WheelDown" or "Other"
handle_mouse_event(e, button) ==
    CASE button = "WheelUp" ->
            move_cursor(move_cursor(move_cursor(e, "Up"), "Up"), "Up")
      [] button = "WheelDown" ->
            move_cursor(move_cursor(move_cursor(e, "Down"), "Down"), "Down")
      [] OTHER -> e

(***************************************************************************)
(* Editor: editing.                                                        *)
(***************************************************************************)
\* insert_char that resets `tabbed` nowhere
insert_charKeepsTabbed(e, c) ==
    LET e1 == IF e.cursor_y >= Len(e.content)
              THEN [e EXCEPT !.content = Append(e.content, <<>>)]
              ELSE e
        line == Line(e1, e1.cursor_y)
    IN  IF e1.cursor_y >= Len(e1.content) \/ e1.cursor_x > Len(line) THEN Panic(e)
        ELSE IF c = "\t"
        THEN [SetLine(e1, e1.cursor_y,
                      SubSeq(line, 1, e1.cursor_x) \o Spaces(TabWidth)
                          \o SubSeq(line, e1.cursor_x + 1, Len(line)))
                EXCEPT !.tabbed = TRUE, !.cursor_x = e1.cursor_x + TabWidth]
        ELSE [SetLine(e1, e1.cursor_y, StrInsert(line, e1.cursor_x, c))
                EXCEPT !.cursor_x = e1.cursor_x + 1]

\* Editor::insert_char.  String::insert panics when cursor_x is beyond the line.
insert_char(e, c) ==
    LET e1 == IF e.cursor_y >= Len(e.content)
              THEN [e EXCEPT !.content = Append(e.content, <<>>)]
              ELSE e
        line == Line(e1, e1.cursor_y)
    IN  IF e1.cursor_y >= Len(e1.content) \/ e1.cursor_x > Len(line) THEN Panic(e)
        ELSE IF c = "\t"
        THEN [SetLine(e1, e1.cursor_y,
                      SubSeq(line, 1, e1.cursor_x) \o Spaces(TabWidth)
                          \o SubSeq(line, e1.cursor_x + 1, Len(line)))
                EXCEPT !.tabbed = TRUE, !.cursor_x = e1.cursor_x + TabWidth]
        ELSE [SetLine(e1, e1.cursor_y, StrInsert(line, e1.cursor_x, c))
                EXCEPT !.tabbed = FALSE, !.cursor_x = e1.cursor_x + 1]

\* the join that reads the length of the previous line after appending to it
JoinCursorAtEnd(e) ==
    LET current_line == Line(e, e.cursor_y)
        removed == [e EXCEPT !.content = VecRemove(e.content, e.cursor_y),
                             !.cursor_y = e.cursor_y - 1]
        prev == Line(removed, removed.cursor_y)
    IN  [SetLine(removed, removed.cursor_y, prev \o current_line)
            EXCEPT !.cursor_x = Len(prev \o current_line)]

\* the branch of delete_char both programs share: join the line onto the previous one
JoinWithPrevious(e) ==
    LET current_line == Line(e, e.cursor_y)
        removed == [e EXCEPT !.content = VecRemove(e.content, e.cursor_y),
                             !.cursor_y = e.cursor_y - 1]
        prev == Line(removed, removed.cursor_y)
    IN  [SetLine(removed, removed.cursor_y, prev \o current_line)
            EXCEPT !.cursor_x = Len(prev)]

\* Editor::delete_char of src/editor/cursor.rs
PlainDeleteChar(e) ==
    IF e.cursor_x = 0 /\ e.cursor_y = 0 THEN e
    ELSE IF e.cursor_x > 0
    THEN IF e.cursor_x - 1 >= Len(Line(e, e.cursor_y)) THEN Panic(e)
         ELSE [SetLine(e, e.cursor_y, StrRemove(Line(e, e.cursor_y), e.cursor_x - 1))
                 EXCEPT !.cursor_x = e.cursor_x - 1]
    ELSE IF e.cursor_y > 0 THEN JoinWithPrevious(e)
    ELSE e

\* `.char_indices().nth(k).is_some_and(|(_, value)| value != ' ')`
NthIsNotSpace(line, k) == k < Len(line) /\ line[k + 1] # " "

\* the removals `for i in 2..=length { line.remove(cursor_x - i) }` from i on:
\* the line after them, or "panic" when an index is out of range
RECURSIVE RemoveLoop(_, _, _, _)
RemoveLoop(line, cx, i, length) ==
    IF i > length THEN line
    ELSE IF cx < i /\ overflow_checks THEN "panic"
    ELSE IF WrapSub(cx, i) >= Len(line) THEN "panic"
    ELSE RemoveLoop(StrRemove(line, WrapSub(cx, i)), cx, i + 1, length)

\* Editor::delete_char of src/main.rs ("smart indent")
SmartDeleteChar(e) ==
    IF e.cursor_x = 0 /\ e.cursor_y = 0 THEN e
    ELSE IF e.cursor_x > 0
    THEN
        LET cx == e.cursor_x
            line == Line(e, e.cursor_y)
            \* `self.cursor_x - i` for i in 1..=4 overflows when cursor_x < 4
            probe_overflows == cx < 4
            remove_four == \A i \in 1..4 : ~NthIsNotSpace(line, WrapSub(cx, i))
            line1 == StrRemove(line, cx - 1)
            length == IF Len(line1) > 3 THEN 4 ELSE Len(line1)
            line2 == RemoveLoop(line1, cx, 2, length)
        IN  IF probe_overflows /\ overflow_checks THEN Panic(e)
            ELSE IF cx - 1 >= Len(line) THEN Panic(e)
            ELSE IF ~remove_four
            THEN [SetLine(e, e.cursor_y, line1) EXCEPT !.cursor_x = cx - 1]
            ELSE IF line2 = "panic" THEN Panic(e)
            \* cursor_x -= 3; cursor_x -= 1
            ELSE IF cx < 4 /\ overflow_checks THEN Panic(e)
            ELSE [SetLine(e, e.cursor_y, line2)
                    EXCEPT !.cursor_x = WrapSub(WrapSub(cx, 3), 1)]
    ELSE IF e.cursor_y > 0 THEN JoinWithPrevious(e)
    ELSE e

\* Editor::delete_char
delete_char(e) ==
    IF variant = "main" THEN SmartDeleteChar(e) ELSE PlainDeleteChar(e)

\* insert_newline that pushes the rest of the line at the end of the document
insert_newlineAtEnd(e) ==
    LET line == Line(e, e.cursor_y)
    IN  IF e.cursor_x > Len(line) THEN Panic(e)
        ELSE [e EXCEPT
                !.content = Append(
                    [e.content EXCEPT ![e.cursor_y + 1] = SubSeq(line, 1, e.cursor_x)],
                    SubSeq(line, e.cursor_x + 1, Len(line))),
                !.cursor_y = e.cursor_y + 1,
                !.cursor_x = 0]

\* insert_newline that leaves the cursor in its column
insert_newlineKeepsCol(e) ==
    LET line == Line(e, e.cursor_y)
    IN  IF e.cursor_x > Len(line) THEN Panic(e)
        ELSE [e EXCEPT
                !.content = VecInsert(
                    [e.content EXCEPT ![e.cursor_y + 1] = SubSeq(line, 1, e.cursor_x)],
                    e.cursor_y + 1,
                    SubSeq(line, e.cursor_x + 1, Len(line))),
                !.cursor_y = e.cursor_y + 1]

\* Editor::insert_newline.  String::split_off panics when cursor_x is beyond the line.
insert_newline(e) ==
    LET line == Line(e, e.cursor_y)
    IN  IF e.cursor_x > Len(line) THEN Panic(e)
        ELSE [e EXCEPT
                !.content = VecInsert(
                    [e.content EXCEPT ![e.cursor_y + 1] = SubSeq(line, 1, e.cursor_x)],
                    e.cursor_y + 1,
                    SubSeq(line, e.cursor_x + 1, Len(line))),
                !.cursor_y = e.cursor_y + 1,
                !.cursor_x = 0]

(***************************************************************************)
(* Editor: construction, files, commands.                                  *)
(***************************************************************************)
\* Editor::new; size is what terminal::size() returns, [cols, rows]
new(size) ==
    [content |-> << <<>> >>, cursor_x |-> 0, cursor_y |-> 0, mode |-> "Normal",
     status_msg |-> <<>>, filename |-> None, offset_y |-> 0, offset_x |-> 0,
     screen_rows |-> size.rows - 2, screen_cols |-> size.cols,
     command_buffer |-> <<>>, show_command |-> FALSE, tabbed |-> FALSE,
     show_line_numbers |-> TRUE,
     run |-> "running", written |-> NoWrite]

\* Editor::open_file, the read having succeeded with `text`
open_file(e, path, text) ==
    LET ls == Lines(text)
    IN  [e EXCEPT !.content = IF ls = <<>> THEN << <<>> >> ELSE ls,
                  !.filename = Some(path)]

\* Editor::set_status
set_status(e, msg) == [e EXCEPT !.status_msg = msg]

\* the text save_file hands to fs::write
SerializeAlways(lines) == Join(lines) \o <<"\n">>

Serialize(lines) ==
    LET joined == Join(lines)
    IN  IF joined # <<>> /\ joined[Len(joined)] # "\n"
        THEN Append(joined, "\n")
        ELSE joined

\* save_file that returns an error when no file name is set
save_fileErrWithoutName(e, io_ok) ==
    IF e.filename.some
    THEN IF io_ok
         THEN [ok |-> TRUE,
               e |-> [e EXCEPT
                        !.written = [result |-> "ok", path |-> e.filename.path,
                                     data |-> Serialize(e.content)],
                        !.status_msg = MsgSavedPre \o e.filename.path \o <<"'">>]]
         ELSE [ok |-> FALSE,
               e |-> [e EXCEPT !.written = [result |-> "failed",
                                            path |-> e.filename.path,
                                            data |-> <<>>]]]
    ELSE [ok |-> FALSE, e |-> e]

\* Editor::save_file: the editor after it, and whether it returned Ok.
\* io_ok is whether fs::write succeeds.
save_file(e, io_ok) ==
    IF e.filename.some
    THEN IF io_ok
         THEN [ok |-> TRUE,
               e |-> [e EXCEPT
                        !.written = [result |-> "ok", path |-> e.filename.path,
                                     data |-> Serialize(e.content)],
                        !.status_msg = MsgSavedPre \o e.filename.path \o <<"'">>]]
         ELSE [ok |-> FALSE,
               e |-> [e EXCEPT !.written = [result |-> "failed",
                                            path |-> e.filename.path,
                                            data |-> <<>>]]]
    ELSE [ok |-> TRUE, e |-> set_status(e, MsgNoFilename)]

\* a clearing that leaves show_command set
ClearCommandKeepsFlag(e) == [e EXCEPT !.command_buffer = <<>>]

\* what follows the match in process_command
ClearCommand(e) == [e EXCEPT !.command_buffer = <<>>, !.show_command = FALSE]

\* std::process::exit(0)
Exit(e) == [e EXCEPT !.run = "exited"]

\* `if let Err(e) = self.save_file() { self.set_status(...) }`
SaveOrReport(e, io_ok) ==
    LET r == save_file(e, io_ok)
    IN  IF r.ok THEN r.e ELSE set_status(r.e, MsgErr \o IoErr)

\* "wq" returning early when the save fails
WriteQuitReturnsEarly(e, io_ok) ==
    LET r == save_file(e, io_ok)
    IN  IF r.ok THEN Exit(r.e) ELSE set_status(r.e, MsgErr \o IoErr)

\* the "wq" arm of process_command
WriteQuit(e, io_ok) ==
    LET r == save_file(e, io_ok)
    IN  IF r.ok THEN Exit(r.e) ELSE ClearCommand(set_status(r.e, MsgErr \o IoErr))

\* Editor::process_command
process_command(e, io_ok) ==
    LET cmd == Trim(e.command_buffer)
    IN  CASE cmd = <<"q">> -> Exit(e)
          [] cmd = <<"w">> -> ClearCommand(SaveOrReport(e, io_ok))
          [] cmd = <<"w","q">> -> WriteQuit(e, io_ok)
          [] cmd \notin {<<"q">>, <<"w">>, <<"w","q">>} /\ StartsWith(cmd, <<"w"," ">>) ->
                ClearCommand(SaveOrReport(
                    [e EXCEPT !.filename = Some(Trim(SubSeq(cmd, 3, Len(cmd))))],
                    io_ok))
          [] OTHER -> ClearCommand(set_status(e, MsgUnknown \o cmd))

(***************************************************************************)
(* Editor: the frame.                                                      *)
(***************************************************************************)
\* `(self.content.len() as f32).log10().floor() as usize + 1`
RECURSIVE DigitCount(_)
DigitCount(n) == IF n < 10 THEN 1 ELSE 1 + DigitCount(n \div 10)

\* line_num_width of render
LineNumWidth(e) == IF e.show_line_numbers THEN DigitCount(Len(e.content)) ELSE 0

\* the offset_y adjustment of render in src/editor/render.rs
RenderAdjust(e) ==
    LET e1 == IF e.cursor_y >= e.offset_y + e.screen_rows - 1
              THEN [e EXCEPT !.offset_y =
                        SatSub(e.cursor_y, e.screen_rows - 1) + 1]
              ELSE e
    IN  IF e1.cursor_y < e1.offset_y
        THEN [e1 EXCEPT !.offset_y = e1.cursor_y]
        ELSE e1

\* what Editor::render does to the editor; size is what the terminal reports
render(e, size) ==
    LET sized == [e EXCEPT !.screen_cols = size.cols,
                           !.screen_rows = size.rows - 2]
    IN  IF variant = "editor" THEN RenderAdjust(sized) ELSE sized

\* `visible_part` of the row loop of render: the document text emitted for
\* screen row `row` (from 0) of an editor render has sized and adjusted.
\* src/editor slices to the end of the line (its min is commented out),
\* src/main.rs to min(start + screen_cols - line_num_width, line_len).
visible_part(e, row) ==
    LET content_row == row + e.offset_y
        line == e.content[content_row + 1]
        line_len == Len(line)
        start == e.offset_x
        clipped == WrapSub(WrapAdd(start, e.screen_cols), LineNumWidth(e))
        end == IF variant = "editor" \/ line_len <= clipped
               THEN line_len ELSE clipped
    IN  IF content_row < Len(e.content) /\ start < line_len
        THEN SubSeq(line, start + 1, end)
        ELSE <<>>

\* the terminal column render puts the document text at: line_num_width + 3
\* in src/editor, line_num_width + 2 in src/main.rs
TextColumn(e) == LineNumWidth(e) + (IF variant = "editor" THEN 3 ELSE 2)

\* u16 arithmetic of the cursor position
U16Mod == 65536

\* `cursor_row` of render: (cursor_y - offset_y) as u16 + 1, which src/editor
\* then bounds by screen_rows as u16
cursor_row(e) ==
    LET row == ((WrapSub(e.cursor_y, e.offset_y) % U16Mod) + 1) % U16Mod
        rows == e.screen_rows % U16Mod
    IN  IF variant = "editor" /\ rows < row THEN rows ELSE row

\* `cursor_col` of render: (cursor_x - offset_x) as u16, plus the column of the
\* text with line numbers on, plus 1 with line numbers off
cursor_col(e) ==
    ((WrapSub(e.cursor_x, e.offset_x) % U16Mod)
        + (IF e.show_line_numbers THEN TextColumn(e) ELSE 1)) % U16Mod

\* fn visible_length
RECURSIVE VisibleLengthFrom(_, _)
VisibleLengthFrom(s, in_escape) ==
    IF s = <<>> THEN 0
    ELSE IF Head(s) = "ESC" THEN VisibleLengthFrom(Tail(s), TRUE)
    ELSE IF in_escape THEN VisibleLengthFrom(Tail(s), Head(s) # "m")
    ELSE 1 + VisibleLengthFrom(Tail(s), FALSE)

visible_length(s) == VisibleLengthFrom(s, FALSE)

\* the loop of truncate_visible: result and current_len after it
RECURSIVE TruncateLoop(_, _, _, _, _, _)
TruncateLoop(s, max_len, result, current_len, in_escape, current_escape) ==
    IF s = <<>> \/ current_len >= max_len
    THEN [result |-> result, current_len |-> current_len]
    ELSE IF Head(s) = "ESC"
    THEN TruncateLoop(Tail(s), max_len, result, current_len, TRUE,
                      Append(current_escape, Head(s)))
    ELSE IF in_escape
    THEN IF Head(s) = "m"
         THEN TruncateLoop(Tail(s), max_len,
                           result \o Append(current_escape, Head(s)),
                           current_len, FALSE, <<>>)
         ELSE TruncateLoop(Tail(s), max_len, result, current_len, TRUE,
                           Append(current_escape, Head(s)))
    ELSE TruncateLoop(Tail(s), max_len, Append(result, Head(s)),
                      current_len + 1, FALSE, current_escape)

truncate_visibleNoReset(s, max_len) ==
    TruncateLoop(s, max_len, <<>>, 0, FALSE, <<>>).result

\* fn truncate_visible
truncate_visible(s, max_len) ==
    LET r == TruncateLoop(s, max_len, <<>>, 0, FALSE, <<>>)
    IN  IF r.current_len >= max_len /\ ~EndsWith(r.result, RESET)
        THEN r.result \o RESET
        ELSE r.result

\* the mode name of the status bar
ModeName(e) ==
    CASE e.mode = "Normal" -> <<"N","O","R","M","A","L">>
      [] e.mode = "Insert" -> <<"I","N","S","E","R","T">>
      [] e.mode = "Command" -> <<"C","O","M","M","A","N","D">>

\* the file name of the status bar
FileLabel(e) == IF e.filename.some THEN e.filename.path ELSE NoName

\* "Ln {}/{} Col {}"
PositionInfo(e) ==
    <<"L","n"," ">> \o Decimal(e.cursor_y + 1) \o <<"/">> \o Decimal(Len(e.content))
        \o <<" ","C","o","l"," ">> \o Decimal(WrapAdd(e.cursor_x, 1))

\* what the middle of the status bar shows: "message", "command" or "nothing"
MiddleKind(e) ==
    IF e.status_msg # <<>> THEN "message"
    ELSE IF e.show_command THEN "command"
    ELSE "nothing"

\* Editor::build_status_bar of src/editor/render.rs
EditorStatusBar(e) ==
    LET left_segment == STATUS_FILENAME_FG \o FileLabel(e) \o RESET \o Sep
                            \o STATUS_MODE_FG \o ModeName(e) \o RESET \o Sep
        right_segment == STATUS_INFO_FG \o STATUS_TRANSPARENT_BG \o PositionInfo(e)
        middle_content ==
            CASE MiddleKind(e) = "message" ->
                    STATUS_MSG_FG \o STATUS_TRANSPARENT_BG \o e.status_msg
              [] MiddleKind(e) = "command" ->
                    STATUS_CMD_FG \o STATUS_TRANSPARENT_BG \o <<":">> \o e.command_buffer
              [] OTHER -> <<>>
        left_len == visible_length(left_segment)
        right_len == visible_length(right_segment)
        available_space == SatSub(e.screen_cols, left_len + right_len)
        truncated == truncate_visible(middle_content, available_space)
        middle_segment ==
            IF visible_length(middle_content) > available_space
            THEN truncated \o Spaces(SatSub(available_space, visible_length(truncated)))
            ELSE middle_content
                    \o Spaces(SatSub(available_space, visible_length(middle_content)))
    IN  <<"ESC", "[">> \o Decimal(e.screen_rows + 1) \o <<";", "1", "H">>
            \o left_segment \o middle_segment \o right_segment
            \o Spaces(SatSub(e.screen_cols,
                             left_len + visible_length(middle_segment) + right_len))
            \o RESET

\* the status line render of src/main.rs writes: `&status_line[..self.screen_cols]`
MainStatusLine(e) ==
    LET status_left == FileLabel(e) \o Sep \o ModeName(e) \o Sep
        status_right == PositionInfo(e)
        msg ==
            CASE MiddleKind(e) = "message" -> e.status_msg
              [] MiddleKind(e) = "command" -> <<":">> \o e.command_buffer
              [] OTHER -> <<>>
        available_space == SatSub(e.screen_cols, Len(status_left) + Len(status_right))
        status_middle == IF Len(msg) > available_space
                         THEN SubSeq(msg, 1, available_space)
                         ELSE msg
        padding == SatSub(available_space, Len(status_middle))
        status_line ==
            status_left \o status_middle \o Spaces(padding) \o status_right
                \o Spaces(SatSub(e.screen_cols,
                                 Len(status_left) + Len(status_middle) + padding
                                     + Len(status_right)))
    IN  SubSeq(status_line, 1, e.screen_cols)

\* the status bar of the frame
StatusBar(e) == IF variant = "main" THEN MainStatusLine(e) ELSE EditorStatusBar(e)

(***************************************************************************)
(* The inputs of the event loop.                                           *)
(***************************************************************************)
\* what terminal::size() may report: [cols, rows]; the content area has rows - 2 rows
TermSizes == {[cols |-> 2, rows |-> 3], [cols |-> 3, rows |-> 4]}

\* the characters typed in Insert mode
InsertChars == {"a", " ", "\t"}

\* the command lines typed in Command mode, character by character
CommandLines == {<<"q">>, <<"w">>, <<"w","q">>, <<"w"," ","f">>, <<"x">>}

\* the characters of CommandLines
CommandChars == {"q", "w", " ", "f", "x"}

\* the character keys that have an arm of their own in Normal mode
ModeKeys == {"q", ":", "i"}

\* the file contents the editor is started on
LoadTexts == {<<>>, <<"a","\n">>, <<" ","\n","\n">>}

\* the path the editor is started on
LoadPath == <<"f">>

\* the characters a line holds after c was inserted
Grown(c) == IF c = "\t" THEN TabWidth ELSE 1

RECURSIVE TotalChars(_)
TotalChars(ls) == IF ls = <<>> THEN 0 ELSE Len(Head(ls)) + TotalChars(Tail(ls))

\* the size of a document: its characters and a line ending for each line
Bytes(ls) == TotalChars(ls) + Len(ls)

IsPrefix(p, s) == Len(p) <= Len(s) /\ SubSeq(s, 1, Len(p)) = p

(***************************************************************************)
(* Editor::run: one action per arm of the match.  Every arm but the ones   *)
(* that leave the loop is followed by scroll() and render().               *)
(***************************************************************************)
\* the editor when an event arrives
Ev == [St EXCEPT !.written = NoWrite]

\* `self.scroll(); self.render();` unless the handler ended the process
AfterEvent(e, size) ==
    IF e.run # "running" THEN e ELSE render(scroll(e), size)

\* the history a drawn input keeps of the one event or operation applied to it:
\* the arm that took the event, the editor before it, and the key
RecordKey(name, key) ==
    /\ last_op' = IF last_op = "run" THEN "run" ELSE name
    /\ snap' = IF last_op = "run" THEN snap ELSE [e |-> St, arg |-> key]
    /\ UNCHANGED <<variant, overflow_checks>>

Record(name) == RecordKey(name, <<>>)

\* one turn of the loop: the handler has produced e
TurnKey(name, key, e) ==
    /\ \E size \in TermSizes : Commit(AfterEvent(e, size))
    /\ RecordKey(name, key)

Turn(name, e) == TurnKey(name, <<>>, e)

\* the loop waits for an event
Running == run = "running" /\ last_op \in {"run", "input"}

\* 'q' that leaves the loop in every mode
KeyQAnyMode ==
    /\ Running
    /\ Commit([Ev EXCEPT !.run = "quit"])
    /\ RecordKey("KeyQ", "q")

KeyQ ==
    /\ Running /\ mode = "Normal"
    /\ Commit([Ev EXCEPT !.run = "quit"])
    /\ RecordKey("KeyQ", "q")

KeyColon ==
    /\ Running /\ mode = "Normal"
    /\ TurnKey("KeyColon", ":",
               [Ev EXCEPT !.mode = "Command", !.show_command = TRUE,
                          !.command_buffer = <<>>])

KeyI ==
    /\ Running /\ mode = "Normal"
    /\ TurnKey("KeyI", "i", [Ev EXCEPT !.mode = "Insert"])

\* Esc that leaves the command line as it is
KeyEscKeepsCommand == Running /\ Turn("KeyEsc", [Ev EXCEPT !.mode = "Normal"])

KeyEsc ==
    /\ Running
    /\ Turn("KeyEsc",
            [(IF mode = "Command"
              THEN [Ev EXCEPT !.command_buffer = <<>>, !.show_command = FALSE]
              ELSE Ev) EXCEPT !.mode = "Normal"])

BackspaceInsert ==
    /\ Running /\ mode = "Insert"
    /\ Turn("BackspaceInsert", delete_char(Ev))

BackspaceCommand ==
    /\ Running /\ mode = "Command"
    /\ Turn("BackspaceCommand",
            [Ev EXCEPT !.command_buffer =
                IF command_buffer = <<>> THEN <<>>
                ELSE SubSeq(command_buffer, 1, Len(command_buffer) - 1)])

EnterInsert ==
    /\ Running /\ mode = "Insert"
    /\ last_op = "run" => Bytes(content) + 1 <= MaxBytes
    /\ Turn("EnterInsert", insert_newline(Ev))

\* process_command, then `self.mode = Mode::Normal` unless the process exited
EnterCommand ==
    /\ Running /\ mode = "Command"
    /\ \E io_ok \in BOOLEAN :
        LET e == process_command(Ev, io_ok)
        IN  Turn("EnterCommand",
                 IF e.run = "running" THEN [e EXCEPT !.mode = "Normal"] ELSE e)

\* src/main.rs only
KeyN ==
    /\ Running /\ mode = "Normal" /\ variant = "main"
    /\ Turn("KeyN", [Ev EXCEPT !.show_line_numbers = ~show_line_numbers])

\* every character key reaches this arm in Insert mode; the event loop of Spec
\* types InsertChars and documents of at most MaxBytes only
CharInsert ==
    /\ Running /\ mode = "Insert"
    /\ \E c \in InsertChars \cup ModeKeys :
        /\ last_op = "run" =>
                (c \in InsertChars /\ Bytes(content) + Grown(c) <= MaxBytes)
        /\ TurnKey("CharInsert", c, insert_char(Ev, c))

\* every character key reaches this arm in Command mode; the event loop of Spec
\* types the command lines of CommandLines only
CharCommand ==
    /\ Running /\ mode = "Command"
    /\ \E c \in CommandChars \cup ModeKeys :
        /\ last_op = "run" =>
                \E l \in CommandLines : IsPrefix(Append(command_buffer, c), l)
        /\ TurnKey("CharCommand", c,
                   [Ev EXCEPT !.command_buffer = Append(command_buffer, c)])

KeyH == Running /\ mode = "Normal" /\ Turn("KeyH", move_cursor(Ev, "Left"))

KeyJ == Running /\ mode = "Normal" /\ Turn("KeyJ", move_cursor(Ev, "Down"))

KeyK == Running /\ mode = "Normal" /\ Turn("KeyK", move_cursor(Ev, "Up"))

KeyL == Running /\ mode = "Normal" /\ Turn("KeyL", move_cursor(Ev, "Right"))

Key0 == Running /\ mode = "Normal" /\ Turn("Key0", [Ev EXCEPT !.cursor_x = 0])

KeyDollar ==
    /\ Running /\ mode = "Normal"
    /\ Turn("KeyDollar", [Ev EXCEPT !.cursor_x = Len(Line(Ev, cursor_y))])

KeyShiftG ==
    /\ Running /\ mode = "Normal"
    /\ Turn("KeyShiftG",
            [Ev EXCEPT !.cursor_y = Len(content) - 1,
                       !.cursor_x = Len(content[Len(content)])])

KeyG ==
    /\ Running /\ mode = "Normal"
    /\ Turn("KeyG", [Ev EXCEPT !.cursor_y = 0, !.cursor_x = 0])

\* 'x': delete under the cursor
DeleteUnderCursor(e) ==
    IF e.cursor_x < Len(Line(e, e.cursor_y))
    THEN SetLine(e, e.cursor_y, StrRemove(Line(e, e.cursor_y), e.cursor_x))
    ELSE e

KeyX == Running /\ mode = "Normal" /\ Turn("KeyX", DeleteUnderCursor(Ev))

\* the removal of 'd' that leaves the column where it was
RemoveLineKeepsCol(e) ==
    LET removed == [e EXCEPT !.content = VecRemove(e.content, e.cursor_y)]
    IN  [removed EXCEPT
            !.cursor_y = IF e.cursor_y >= Len(removed.content)
                         THEN Len(removed.content) - 1
                         ELSE e.cursor_y]

\* the removal of 'd': Vec::remove, the row clamped, the column reset
RemoveCurrentLine(e) ==
    LET removed == [e EXCEPT !.content = VecRemove(e.content, e.cursor_y)]
    IN  [removed EXCEPT
            !.cursor_y = IF e.cursor_y >= Len(removed.content)
                         THEN Len(removed.content) - 1
                         ELSE e.cursor_y,
            !.cursor_x = 0]

\* 'd' without its guard
DeleteLineUnguarded(e) == RemoveCurrentLine(e)

\* 'd': delete the line
DeleteLine(e) == IF Len(e.content) > 1 THEN RemoveCurrentLine(e) ELSE e

KeyD == Running /\ mode = "Normal" /\ Turn("KeyD", DeleteLine(Ev))

KeyU == Running /\ mode = "Normal" /\ Turn("KeyU", set_status(Ev, MsgUndo))

KeySlash == Running /\ mode = "Normal" /\ Turn("KeySlash", set_status(Ev, MsgSearch))

\* `Event::Key(key) => self.move_cursor(key)`: the arrow keys in every mode, and
\* every key no arm above takes ("Other")
KeyOther ==
    /\ Running
    /\ \E key \in {"Up", "Down", "Left", "Right", "Other"} :
        Turn("KeyOther", move_cursor(Ev, key))

Mouse ==
    /\ Running
    /\ \E button \in {"WheelUp", "WheelDown", "Other"} :
        Turn("Mouse", handle_mouse_event(Ev, button))

\* `_ => {}`: an event that is neither a key nor the mouse, such as a resize
OtherEvent == Running /\ Turn("OtherEvent", Ev)

\* the state is the editor value e
Is(e) ==
    /\ content = e.content /\ cursor_x = e.cursor_x /\ cursor_y = e.cursor_y
    /\ mode = e.mode /\ status_msg = e.status_msg /\ filename = e.filename
    /\ offset_y = e.offset_y /\ offset_x = e.offset_x
    /\ screen_rows = e.screen_rows /\ screen_cols = e.screen_cols
    /\ command_buffer = e.command_buffer /\ show_command = e.show_command
    /\ tabbed = e.tabbed /\ show_line_numbers = e.show_line_numbers
    /\ run = e.run /\ written = e.written

\* The programs and their builds.  src/editor has no usize arithmetic that can
\* overflow from a state it can reach, so one build stands for both.
Builds == {<<"editor", TRUE>>, <<"main", TRUE>>, <<"main", FALSE>>}

\* main: Editor::new(), open_file when a path is given; run() then renders once,
\* which reads the terminal size again
Init ==
    /\ \E b \in Builds : variant = b[1] /\ overflow_checks = b[2]
    /\ \E size \in TermSizes, loaded \in BOOLEAN, text \in LoadTexts :
        LET e == IF loaded THEN open_file(new(size), LoadPath, text) ELSE new(size)
        IN  Is([e EXCEPT !.screen_cols = size.cols, !.screen_rows = size.rows - 2])
    /\ last_op = "run"
    /\ snap = <<>>

Next ==
    \/ KeyQ \/ KeyColon \/ KeyI \/ KeyEsc
    \/ BackspaceInsert \/ BackspaceCommand \/ EnterInsert \/ EnterCommand
    \/ KeyN \/ CharInsert \/ CharCommand
    \/ KeyH \/ KeyJ \/ KeyK \/ KeyL \/ Key0 \/ KeyDollar \/ KeyShiftG \/ KeyG
    \/ KeyX \/ KeyD \/ KeyU \/ KeySlash
    \/ KeyOther \/ Mouse \/ OtherEvent

Spec == Init /\ [][Next]_vars

(***************************************************************************)
(* The methods of Editor, each applied once to an input drawn from a       *)
(* bounded set of well-formed editors.                                     *)
(***************************************************************************)
\* the characters of the drawn documents
DocChars == {"a", " "}

\* the strings of at most n characters
Strs(n) == UNION {[1..k -> DocChars] : k \in 0..n}

\* the drawn documents: one or two lines of at most MaxOpChars characters
\* together, and up to MaxOpLines lines of at most one character
OpDocs ==
    {<<l>> : l \in Strs(MaxOpChars)}
        \cup {d \in Strs(MaxOpChars) \X Strs(MaxOpChars) :
                Len(d[1]) + Len(d[2]) <= MaxOpChars}
        \cup UNION {[1..k -> Strs(1)] : k \in 1..MaxOpLines}

\* the terminal of the drawn documents
OpSize == [cols |-> 4, rows |-> 4]

\* a drawn document with a valid cursor, after a tab-expansion or not, as the
\* event loop leaves it
DocInput(d, row, col, tab) ==
    AfterEvent([new(OpSize) EXCEPT !.content = d, !.cursor_y = row,
                                   !.cursor_x = col, !.mode = "Insert",
                                   !.tabbed = tab,
                                   !.filename = Some(LoadPath)],
               OpSize)

\* the document the drawn viewports look at
ViewDoc == [r \in 1..MaxView |-> [c \in 1..MaxView |-> "a"]]

\* a drawn viewport: any cursor of ViewDoc, any offsets, any size of the content area
ViewInput(row, col, oy, ox, rows, cols) ==
    [new(OpSize) EXCEPT !.content = ViewDoc, !.cursor_y = row, !.cursor_x = col,
                        !.offset_y = oy, !.offset_x = ox,
                        !.screen_rows = rows, !.screen_cols = cols]

\* the file contents open_file is applied to
Texts == UNION {[1..k -> {"a", "\n", "\r"}] : k \in 0..MaxTextLen}

\* the terminal widths and file names the status bar is drawn for
BarSizes == {[cols |-> 20, rows |-> 4], [cols |-> 40, rows |-> 4]}

BarNames == {None, Some(<<"x">>)}

\* the status messages the status bar is drawn for
BarMessages == {<<>>, MsgUndo, MsgNoFilename}

\* a drawn status: an empty document, a mode with its command line, a message
BarInput(size, name, m, cmd, msg) ==
    [new(size) EXCEPT !.filename = name, !.mode = m,
                      !.show_command = (m = "Command"),
                      !.command_buffer = cmd, !.status_msg = msg]

InitOps ==
    /\ \E b \in Builds : variant = b[1] /\ overflow_checks = b[2]
    /\ \/ \E d \in OpDocs :
            \E row \in 0..(Len(d) - 1) :
                \E col \in 0..Len(d[row + 1]), tab \in BOOLEAN :
                    Is(DocInput(d, row, col, tab))
       \/ \E row \in 0..(MaxView - 1), col \in 0..MaxView,
             oy \in 0..(MaxView - 1), ox \in 0..MaxView,
             rows \in 1..2, cols \in 1..2 :
            Is(ViewInput(row, col, oy, ox, rows, cols))
       \/ \E size \in BarSizes, name \in BarNames, msg \in BarMessages,
             m \in {"Normal", "Insert", "Command"} :
            \E cmd \in IF m = "Command" THEN {<<>>, <<"w">>} ELSE {<<>>} :
                Is(BarInput(size, name, m, cmd, msg))
    /\ last_op = "input"
    /\ snap = <<>>

\* a method has turned the drawn input into e
Call(name, arg, e) ==
    /\ last_op = "input" /\ run = "running"
    /\ Commit(e)
    /\ last_op' = name
    /\ snap' = [e |-> St, arg |-> arg]
    /\ UNCHANGED <<variant, overflow_checks>>

\* main opens the file on the editor it has just constructed
CallOpenFile ==
    /\ \E size \in BarSizes : Ev = new(size)
    /\ \E text \in Texts : Call("open_file", text, open_file(Ev, LoadPath, text))

CallSaveFile ==
    \E io_ok \in BOOLEAN : Call("save_file", io_ok, save_file(Ev, io_ok).e)

CallScroll == Call("scroll", <<>>, scroll(Ev))

CallRender ==
    \E size \in BarSizes : Call("render", size, render(Ev, size))

\* a render while the terminal keeps the size of the previous render
CallRenderSameSize ==
    LET size == [cols |-> screen_cols, rows |-> screen_rows + 2]
    IN  Call("render_same_size", size, render(Ev, size))

CallMoveCursor ==
    \E direction \in {"Up", "Down", "Left", "Right", "Other"} :
        Call("move_cursor", direction, move_cursor(Ev, direction))

CallInsertChar ==
    \E c \in InsertChars : Call("insert_char", c, insert_char(Ev, c))

CallDeleteChar == Call("delete_char", <<>>, delete_char(Ev))

CallInsertNewline == Call("insert_newline", <<>>, insert_newline(Ev))

NextOps ==
    \/ CallOpenFile \/ CallSaveFile \/ CallScroll \/ CallRender
    \/ CallRenderSameSize
    \/ CallMoveCursor \/ CallInsertChar \/ CallDeleteChar \/ CallInsertNewline

SpecOps == InitOps /\ [][NextOps]_vars

(***************************************************************************)
(* The event loop taking one event from an editor drawn from a bounded set *)
(* of well-formed editors, in every mode.                                  *)
(***************************************************************************)
\* the drawn documents of the event loop: lines of at most one character
KeyDocs == UNION {[1..k -> Strs(1)] : k \in 1..MaxOpLines}

\* the command lines Command mode is drawn with
KeyCommands == CommandLines \cup {<<>>}

\* a drawn editor in mode m, as the event loop leaves it
KeyInput(d, row, col, m, cmd, name) ==
    AfterEvent([new(OpSize) EXCEPT !.content = d, !.cursor_y = row,
                                   !.cursor_x = col, !.mode = m,
                                   !.show_command = (m = "Command"),
                                   !.command_buffer = cmd, !.filename = name],
               OpSize)

InitKeys ==
    /\ \E b \in Builds : variant = b[1] /\ overflow_checks = b[2]
    /\ \E d \in KeyDocs, m \in {"Normal", "Insert", "Command"},
          name \in {None, Some(LoadPath)} :
        \E row \in 0..(Len(d) - 1),
           cmd \in IF m = "Command" THEN KeyCommands ELSE {<<>>} :
            \E col \in 0..Len(d[row + 1]) :
                Is(KeyInput(d, row, col, m, cmd, name))
    /\ last_op = "input"
    /\ snap = <<>>

SpecKeys == InitKeys /\ [][Next]_vars

(***************************************************************************)
(* visible_length and truncate_visible, each applied once to a status      *)
(* message drawn from the strings over a character, ESC and the characters *)
(* of a style sequence.                                                    *)
(***************************************************************************)
EscChars == {"a", "ESC", "[", "0", "m"}

\* the strings of at most MaxEscLen of these
EscStrs == UNION {[1..k -> EscChars] : k \in 0..MaxEscLen}

InitText ==
    /\ variant = "editor" /\ overflow_checks = TRUE
    /\ \E s \in EscStrs :
        Is([new(OpSize) EXCEPT !.status_msg = s])
    /\ last_op = "input"
    /\ snap = <<>>

CallVisibleLength ==
    Call("visible_length", [result |-> visible_length(status_msg)], Ev)

CallTruncateVisible ==
    \E max_len \in 0..(MaxEscLen + 1) :
        Call("truncate_visible",
             [max_len |-> max_len,
              result |-> truncate_visible(status_msg, max_len)],
             Ev)

NextText == CallVisibleLength \/ CallTruncateVisible

SpecText == InitText /\ [][NextText]_vars

(***************************************************************************)
(* Properties.                                                             *)
(***************************************************************************)
\* the window of the content area holds the cursor
CursorInWindow ==
    /\ offset_y <= cursor_y /\ cursor_y < offset_y + screen_rows
    /\ offset_x <= cursor_x /\ cursor_x < offset_x + screen_cols

\* t ends with '\n' and does not end with "\n\n"
EndsInOneNewline(t) ==
    /\ Len(t) >= 1 /\ t[Len(t)] = "\n"
    /\ ~(Len(t) >= 2 /\ t[Len(t) - 1] = "\n")

\* the last two lines of a document of three lines or more are empty
LastTwoEmpty(ls) ==
    Len(ls) >= 3 /\ ls[Len(ls)] = <<>> /\ ls[Len(ls) - 1] = <<>>

\* text with its trailing newline normalized: added if absent
NormalizedNewline(text) ==
    IF text # <<>> /\ text[Len(text)] = "\n" THEN text ELSE Append(text, "\n")

\* the parameter and intermediate bytes of a control sequence (ECMA-48)
CsiInner ==
    {"0", "1", "2", "3", "4", "5", "6", "7", "8", "9", ":", ";", "<", "=", ">", "?",
     " ", "!", "#", "$", "%", "&", "'", "(", ")", "*", "+", ",", "-", ".", "/"}

\* the printable characters of s from a position in state st of a terminal's
\* parser: "text", "esc" (after ESC) or "csi" (after ESC [)
RECURSIVE PrintableFrom(_, _)
PrintableFrom(s, st) ==
    IF s = <<>> THEN 0
    ELSE IF Head(s) = "ESC" THEN PrintableFrom(Tail(s), "esc")
    ELSE IF st = "esc"
    THEN PrintableFrom(Tail(s), IF Head(s) = "[" THEN "csi" ELSE "text")
    ELSE IF st = "csi"
    THEN PrintableFrom(Tail(s), IF Head(s) \in CsiInner THEN "csi" ELSE "text")
    ELSE 1 + PrintableFrom(Tail(s), "text")

\* the number of columns s takes on a terminal
PrintableLength(s) == PrintableFrom(s, "text")

\* C1: in every state reachable from an empty or loaded document by any
\* sequence of input events, the document has at least one line.
C1_AtLeastOneLine == Len(content) >= 1

\* a loaded document that editing has left as a single empty line
C1_SingleEmptyLine ==
    /\ run = "running" /\ mode = "Insert"
    /\ filename = Some(LoadPath) /\ content = << <<>> >>

\* C2: in every state reachable by any sequence of input events, the cursor is a
\* valid position: cursor_y < number of lines and cursor_x <= length of its line.
C2_CursorValid ==
    run = "running" =>
        /\ cursor_y < Len(content)
        /\ cursor_x <= Len(content[cursor_y + 1])

\* C3: at every render of the event loop, the window of the size the terminal
\* has at that render holds the cursor on both axes, whatever events and
\* terminal size changes came before.
C3_CursorInViewport == run = "running" => CursorInWindow

C5_QuitOnlyAfterWrite ==
    (run = "exited" /\ Trim(command_buffer) = <<"w", "q">>) =>
        written.result = "ok"

\* C6: the smart-indent delete_char is total: for every document and every
\* valid cursor with cursor_x > 0 it completes without an out-of-range index or
\* a subtraction below zero and leaves cursor_x <= length of the line.
C6_SmartDeleteTotal ==
    (last_op = "delete_char" /\ variant = "main" /\ snap.e.cursor_x > 0) =>
        /\ run = "running"
        /\ cursor_x <= Len(content[cursor_y + 1])

\* C7: whenever show_command is true the middle of the status bar shows the
\* command line, even if a status message of an earlier event is still stored.
C7_CommandLineShown ==
    (run = "running" /\ show_command) => MiddleKind(St) = "command"

\* C8: for every terminal width, filename, mode, status message and command
\* buffer the status bar has exactly terminal-width printable characters.
C8_BarSpansWidth ==
    (last_op = "render" /\ run = "running") =>
        PrintableLength(StatusBar(St)) = screen_cols

\* C9: saving a document right after loading a text of lines separated by '\n'
\* writes the text with its trailing newline normalized (added if absent).
C9_RoundTrip ==
    (last_op = "open_file" /\ \A i \in 1..Len(snap.arg) : snap.arg[i] # "\r") =>
        save_file(St, TRUE).e.written.data = NormalizedNewline(snap.arg)

\* C10: scroll is idempotent: a second call right after a first one leaves
\* offset_y and offset_x as the first one set them.
C10_ScrollIdempotent ==
    last_op = "scroll" =>
        /\ scroll(St).offset_y = offset_y
        /\ scroll(St).offset_x = offset_x

\* a call of scroll that moved the window on both axes
C10_ScrolledBothAxes ==
    /\ last_op = "scroll"
    /\ snap.e.offset_y # offset_y /\ snap.e.offset_x # offset_x

\* C11: Esc in Insert or Command mode leaves the editor in Normal mode; from
\* Command it clears the command buffer and show_command; from Insert it
\* changes neither the document, the cursor nor the command buffer.
C11_EscToNormal ==
    (last_op = "KeyEsc" /\ snap.e.mode \in {"Insert", "Command"}) =>
        /\ run = "running" /\ mode = "Normal"
        /\ snap.e.mode = "Command" => (command_buffer = <<>> /\ ~show_command)
        /\ snap.e.mode = "Insert" =>
            /\ content = snap.e.content
            /\ cursor_x = snap.e.cursor_x /\ cursor_y = snap.e.cursor_y
            /\ command_buffer = snap.e.command_buffer

\* Esc has left Command mode with a command typed
C11_EscFromCommand ==
    /\ last_op = "KeyEsc" /\ snap.e.mode = "Command"
    /\ snap.e.command_buffer # <<>> /\ mode = "Normal"

C13_ModeRouting ==
    (/\ last_op \in {"KeyQ", "KeyColon", "KeyI", "CharInsert", "CharCommand"}
     /\ snap.arg \in ModeKeys) =>
        LET before == snap.e
            key == snap.arg
        IN  /\ run = "quit" <=> (key = "q" /\ before.mode = "Normal")
            /\ run \in {"quit", "running"}
            /\ before.mode = "Insert" =>
                /\ mode = "Insert"
                /\ content = SetLine(before, before.cursor_y,
                                     StrInsert(Line(before, before.cursor_y),
                                               before.cursor_x, key)).content
                /\ cursor_x = before.cursor_x + 1
                /\ command_buffer = before.command_buffer
            /\ before.mode = "Command" =>
                /\ mode = "Command"
                /\ command_buffer = Append(before.command_buffer, key)
                /\ content = before.content
            /\ before.mode = "Normal" =>
                /\ content = before.content
                /\ mode = CASE key = ":" -> "Command"
                            [] key = "i" -> "Insert"
                            [] OTHER -> "Normal"

\* 'q' typed in Insert mode went into the document
C13_QInserted ==
    /\ last_op = "CharInsert" /\ snap.arg = "q"
    /\ run = "running" /\ mode = "Insert"
    /\ Len(content[cursor_y + 1]) = Len(snap.e.content[cursor_y + 1]) + 1

\* an event of the loop has left every line and the cursor where they were
SameDocumentAndCursor ==
    /\ run = "running"
    /\ content = snap.e.content
    /\ cursor_x = snap.e.cursor_x /\ cursor_y = snap.e.cursor_y

\* C14: the four boundary operations change neither the document nor the
\* cursor: move Up on row 0, move Down on the last row, delete_char at (0,0)
\* and 'd' on a document of a single line.
C14_BoundaryNoOps ==
    (\/ last_op = "KeyK" /\ snap.e.cursor_y = 0
     \/ last_op = "KeyJ" /\ snap.e.cursor_y = Len(snap.e.content) - 1
     \/ last_op = "BackspaceInsert" /\ snap.e.cursor_x = 0 /\ snap.e.cursor_y = 0
     \/ last_op = "KeyD" /\ Len(snap.e.content) = 1) =>
        SameDocumentAndCursor

\* 'd' on the single line "a" with the cursor behind it: line and column stay
C14_SingleLineKept ==
    /\ last_op = "KeyD" /\ snap.e.content = << <<"a">> >> /\ snap.e.cursor_x = 1
    /\ content = << <<"a">> >> /\ cursor_x = 1

\* C15: insert_newline at a valid cursor (row, col) keeps the first col
\* characters in line row, inserts the rest as a new line at row + 1, leaves
\* every other line unchanged (one line more) and moves the cursor to
\* (row + 1, 0).
C15_NewlineSplits ==
    last_op = "insert_newline" =>
        LET before == snap.e.content
            row == snap.e.cursor_y
            col == snap.e.cursor_x
            line == before[row + 1]
        IN  /\ run = "running"
            /\ Len(content) = Len(before) + 1
            /\ content[row + 1] = SubSeq(line, 1, col)
            /\ content[row + 2] = SubSeq(line, col + 1, Len(line))
            /\ \A i \in 1..row : content[i] = before[i]
            /\ \A i \in (row + 2)..Len(before) : content[i + 1] = before[i]
            /\ cursor_y = row + 1 /\ cursor_x = 0

\* the scenario ["abc","de"] at (0,3), with 'a' for every letter
C15_SplitAtEndOfLine ==
    /\ last_op = "insert_newline"
    /\ snap.e.content = << <<"a", "a", "a">>, <<"a", "a">> >>
    /\ snap.e.cursor_y = 0 /\ snap.e.cursor_x = 3
    /\ content = << <<"a", "a", "a">>, <<>>, <<"a", "a">> >>
    /\ cursor_y = 1 /\ cursor_x = 0

\* C16: delete_char with col = 0 and row > 0 joins the line onto the end of
\* the previous one: previous + current replaces the previous line, the current
\* line is removed (one line fewer, the others unchanged) and the cursor moves
\* to (row - 1, old length of the previous line); with col > 0 the plain
\* delete_char removes exactly the character at col - 1 and sets col to col - 1.
C16_BackspaceJoinsOrRemoves ==
    last_op = "delete_char" =>
        LET before == snap.e.content
            row == snap.e.cursor_y
            col == snap.e.cursor_x
            line == before[row + 1]
        IN  /\ (col = 0 /\ row > 0) =>
                /\ run = "running"
                /\ Len(content) = Len(before) - 1
                /\ content[row] = before[row] \o line
                /\ \A i \in 1..(row - 1) : content[i] = before[i]
                /\ \A i \in (row + 2)..Len(before) : content[i - 1] = before[i]
                /\ cursor_y = row - 1 /\ cursor_x = Len(before[row])
            /\ (col > 0 /\ variant = "editor") =>
                /\ run = "running"
                /\ Len(content) = Len(before)
                /\ content[row + 1] =
                        SubSeq(line, 1, col - 1) \o SubSeq(line, col + 1, Len(line))
                /\ \A i \in 1..Len(before) : i # row + 1 => content[i] = before[i]
                /\ cursor_y = row /\ cursor_x = col - 1

\* a non-empty line joined onto a non-empty previous line
C16_LinesJoined ==
    /\ last_op = "delete_char"
    /\ snap.e.cursor_x = 0 /\ snap.e.cursor_y = 1
    /\ snap.e.content[1] # <<>> /\ snap.e.content[2] # <<>>
    /\ Len(content) = Len(snap.e.content) - 1
    /\ cursor_y = 0 /\ cursor_x = Len(snap.e.content[1])

\* C17: move Right increments col when col < length of the line; at the end of
\* a line it moves to (row + 1, 0) when a next line exists; at the end of the
\* last line it leaves the cursor unchanged.  The document is untouched.
C17_MoveRight ==
    (last_op = "move_cursor" /\ snap.arg = "Right") =>
        LET row == snap.e.cursor_y
            col == snap.e.cursor_x
            len == Len(snap.e.content[row + 1])
        IN  /\ run = "running" /\ content = snap.e.content
            /\ col < len => (cursor_y = row /\ cursor_x = col + 1)
            /\ (col = len /\ row + 1 < Len(content)) =>
                    (cursor_y = row + 1 /\ cursor_x = 0)
            /\ (col = len /\ row + 1 = Len(content)) =>
                    (cursor_y = row /\ cursor_x = col)

\* Right at the end of a line above a non-empty line went to its start
C17_WrappedToNextLine ==
    /\ last_op = "move_cursor" /\ snap.arg = "Right"
    /\ snap.e.cursor_y = 0 /\ snap.e.cursor_x = Len(snap.e.content[1])
    /\ snap.e.cursor_x > 0 /\ Len(content) = 2 /\ content[2] # <<>>
    /\ cursor_y = 1 /\ cursor_x = 0

\* C18: move Left decrements col when col > 0; with col = 0 and row > 0 it
\* moves to the end of the previous line; at (0,0) it leaves the cursor
\* unchanged.  The document is untouched.
C18_MoveLeft ==
    (last_op = "move_cursor" /\ snap.arg = "Left") =>
        LET row == snap.e.cursor_y
            col == snap.e.cursor_x
        IN  /\ run = "running" /\ content = snap.e.content
            /\ col > 0 => (cursor_y = row /\ cursor_x = col - 1)
            /\ (col = 0 /\ row > 0) =>
                    (cursor_y = row - 1 /\ cursor_x = Len(content[row]))
            /\ (col = 0 /\ row = 0) => (cursor_y = 0 /\ cursor_x = 0)

\* the scenario ["abc","de"] at (1,0), with 'a' for every letter: Left gives (0,3)
C18_WrappedToPreviousLine ==
    /\ last_op = "move_cursor" /\ snap.arg = "Left"
    /\ content = << <<"a", "a", "a">>, <<"a", "a">> >>
    /\ snap.e.cursor_y = 1 /\ snap.e.cursor_x = 0
    /\ cursor_y = 0 /\ cursor_x = 3

\* C19: insert_char('\t') inserts exactly four spaces at (row, col), advances
\* col by 4 and sets tabbed; insert_char of any other character inserts that
\* one character at (row, col), advances col by 1 and clears tabbed; all other
\* lines are unchanged.
C19_InsertChar ==
    last_op = "insert_char" =>
        LET before == snap.e.content
            row == snap.e.cursor_y
            col == snap.e.cursor_x
            line == before[row + 1]
            c == snap.arg
            inserted == IF c = "\t" THEN <<" ", " ", " ", " ">> ELSE <<c>>
        IN  /\ run = "running"
            /\ Len(content) = Len(before)
            /\ content[row + 1] =
                    SubSeq(line, 1, col) \o inserted \o SubSeq(line, col + 1, Len(line))
            /\ \A i \in 1..Len(before) : i # row + 1 => content[i] = before[i]
            /\ cursor_y = row /\ cursor_x = col + Len(inserted)
            /\ tabbed = (c = "\t")

\* a tab typed inside a line: four spaces more, the column four further
C19_TabExpanded ==
    /\ last_op = "insert_char" /\ snap.arg = "\t" /\ ~snap.e.tabbed
    /\ snap.e.cursor_x > 0 /\ snap.e.cursor_x < Len(snap.e.content[cursor_y + 1])
    /\ Len(content[cursor_y + 1]) = Len(snap.e.content[cursor_y + 1]) + 4
    /\ cursor_x = snap.e.cursor_x + 4 /\ tabbed

\* C20: 'd' in Normal mode on a document of more than one line removes exactly
\* the line of the cursor (the others keep their order and content), sets the
\* cursor row to min(old row, new line count - 1) and the column to 0.
C20_DeleteLine ==
    (last_op = "KeyD" /\ Len(snap.e.content) > 1) =>
        LET before == snap.e.content
            row == snap.e.cursor_y
        IN  /\ run = "running"
            /\ Len(content) = Len(before) - 1
            /\ \A i \in 1..row : content[i] = before[i]
            /\ \A i \in (row + 2)..Len(before) : content[i - 1] = before[i]
            /\ cursor_y = (IF row < Len(content) THEN row ELSE Len(content) - 1)
            /\ cursor_x = 0

\* 'd' on the last of three lines, the cursor behind its character
C20_LastLineDeleted ==
    /\ last_op = "KeyD" /\ Len(snap.e.content) = 3
    /\ snap.e.cursor_y = 2 /\ snap.e.cursor_x = 1
    /\ Len(content) = 2 /\ cursor_y = 1 /\ cursor_x = 0

\* C21: dispatching an unknown command sets the status message to
\* "Unknown command: <text>", and dispatching w with no filename set sets the
\* "no filename" message; in both cases nothing is written, the document and
\* the cursor are unchanged and the editor keeps running.
C21_RejectedCommands ==
    last_op = "EnterCommand" =>
        LET cmd == Trim(snap.e.command_buffer)
        IN  /\ (cmd \notin {<<"q">>, <<"w">>, <<"w", "q">>}
                    /\ ~StartsWith(cmd, <<"w", " ">>)) =>
                /\ status_msg = MsgUnknown \o cmd
                /\ written.result = "none"
                /\ SameDocumentAndCursor
            /\ (cmd = <<"w">> /\ ~snap.e.filename.some) =>
                /\ status_msg = MsgNoFilename
                /\ written.result = "none"
                /\ SameDocumentAndCursor

\* the unknown command x was dispatched
C21_UnknownCommand ==
    /\ last_op = "EnterCommand" /\ snap.e.command_buffer = <<"x">>
    /\ status_msg = MsgUnknown \o <<"x">> /\ run = "running"

\* the offset the minimal-shift rule gives an axis: the cursor when it is before
\* the window, cursor - size + 1 when it is past it, the old offset otherwise
MinimalShift(cursor, offset, size) ==
    IF cursor < offset THEN cursor
    ELSE IF cursor >= offset + size THEN cursor - size + 1
    ELSE offset

\* C22: scroll sets each offset by the minimal-shift rule, and so does the
\* row adjustment render makes in src/editor for the size it has just read: a
\* cursor inside the window leaves the offset alone, a cursor below it ends on
\* the last visible row.
C22_MinimalShift ==
    /\ last_op = "scroll" =>
        /\ offset_y = MinimalShift(cursor_y, snap.e.offset_y, screen_rows)
        /\ offset_x = MinimalShift(cursor_x, snap.e.offset_x, screen_cols)
    /\ (last_op = "render" /\ variant = "editor") =>
        /\ offset_y = MinimalShift(cursor_y, snap.e.offset_y, screen_rows)
        /\ offset_x = snap.e.offset_x

\* C23: render leaves offset_y and offset_x as they are whenever the window of
\* the size it reads already holds the cursor, the last visible row included.
C23_RenderKeepsOffsets ==
    (/\ last_op = "render"
     /\ snap.e.offset_y <= cursor_y /\ cursor_y < snap.e.offset_y + screen_rows
     /\ snap.e.offset_x <= cursor_x /\ cursor_x < snap.e.offset_x + screen_cols) =>
        /\ offset_y = snap.e.offset_y
        /\ offset_x = snap.e.offset_x

\* C24: in src/main.rs, delete_char at a column of at least 4 removes the four
\* characters before the cursor and moves the cursor back by 4 when all four
\* are spaces (also on a line of exactly four spaces), and removes one
\* character and moves back by 1 otherwise; the rest of the line stays.
C24_SmartBackspace ==
    (last_op = "delete_char" /\ variant = "main" /\ snap.e.cursor_x >= 4) =>
        LET cx == snap.e.cursor_x
            old == snap.e.content[cursor_y + 1]
            n == IF \A i \in 1..4 : old[cx + 1 - i] = " " THEN 4 ELSE 1
        IN  /\ run = "running"
            /\ cursor_y = snap.e.cursor_y
            /\ content = [snap.e.content EXCEPT ![cursor_y + 1] =
                            SubSeq(old, 1, cx - n) \o SubSeq(old, cx + 1, Len(old))]
            /\ cursor_x = cx - n

\* C25: for every visible row, the document text render emits for the row is
\* the line from offset_x on, cut to at most screen_cols - line_num_width
\* characters, whatever the length of the line and offset_x.
C25_RowTextClipped ==
    (last_op \in {"render", "render_same_size"} /\ run = "running") =>
        \A row \in 0..(screen_rows - 1) :
            /\ Len(visible_part(St, row)) <= screen_cols - LineNumWidth(St)
            /\ row + offset_y < Len(content) =>
                IsPrefix(visible_part(St, row),
                         SubSeq(content[row + offset_y + 1], offset_x + 1,
                                Len(content[row + offset_y + 1])))

\* position i of s is inside an escape sequence: an ESC at or before it has no
\* 'm' between the two
InEscape(s, i) ==
    \E j \in 1..i : s[j] = "ESC" /\ \A k \in j..(i - 1) : s[k] # "m"

\* the number of characters of s outside escape sequences
OutsideCount(s) == Cardinality({i \in 1..Len(s) : ~InEscape(s, i)})

\* C26: for every string s and limit n, visible_length(s) is the number of
\* characters of s outside ESC...m sequences, truncate_visible(s, n) has visible
\* length min(n, visible_length(s)), and it ends with the reset sequence
\* whenever visible_length(s) > n.
C26_VisibleTruncation ==
    /\ last_op = "visible_length" =>
        snap.arg.result = OutsideCount(status_msg)
    /\ last_op = "truncate_visible" =>
        LET n == snap.arg.max_len
            len == visible_length(status_msg)
        IN  /\ visible_length(snap.arg.result) = (IF n < len THEN n ELSE len)
            /\ len > n => EndsWith(snap.arg.result, RESET)

\* a string that starts with a style sequence, cut after its first character
C26_CutAfterSequence ==
    /\ last_op = "truncate_visible"
    /\ status_msg = <<"ESC", "m", "a", "a">> /\ snap.arg.max_len = 1
    /\ snap.arg.result = <<"ESC", "m", "a">> \o RESET

\* C27: the terminal cursor row every render reports is at most screen_rows,
\* also at the render that follows a shrink of the terminal height.
C27_CursorRowInContentArea ==
    run = "running" => cursor_row(St) <= screen_rows

\* C28: after move(Up) or move(Down) the column is min(old column, length of
\* the new row's line), and moving back to the row it came from does not
\* restore a column the first move has cut.
C28_VerticalMoveClampsCol ==
    (last_op = "move_cursor" /\ snap.arg \in {"Up", "Down"}) =>
        LET old == snap.e.cursor_x
            len == Len(content[cursor_y + 1])
            back == move_cursor(St, IF snap.arg = "Up" THEN "Down" ELSE "Up")
        IN  /\ cursor_x = (IF old < len THEN old ELSE len)
            /\ (cursor_y # snap.e.cursor_y /\ cursor_x < old) =>
                /\ back.cursor_y = snap.e.cursor_y
                /\ back.cursor_x = cursor_x

\* a move down from the end of a line onto a shorter line
C28_SnappedToShorterLine ==
    /\ last_op = "move_cursor" /\ snap.arg = "Down"
    /\ cursor_y = snap.e.cursor_y + 1
    /\ snap.e.cursor_x = 3 /\ cursor_x = 2 /\ Len(content[cursor_y + 1]) = 2

\* C29: in every reachable state show_command is true exactly when the mode is
\* Command, and the command buffer is empty whenever the mode is not Command.
C29_CommandFlagAndBuffer ==
    /\ show_command <=> (mode = "Command")
    /\ mode # "Command" => command_buffer = <<>>

\* Normal mode again after a command line has been typed and dispatched
C29_BackFromCommand ==
    /\ run = "running" /\ mode = "Normal"
    /\ status_msg = MsgUnknown \o <<"x">>
    /\ ~show_command /\ command_buffer = <<>>

\* C30: when scroll has reconciled the viewport and the terminal is wide
\* enough for the text column, the terminal cursor column render reports is at
\* most screen_cols, for every cursor column and line length.
C30_CursorColInTerminal ==
    (/\ last_op = "render_same_size" /\ run = "running"
     /\ snap.e = scroll(snap.e)
     /\ TextColumn(St) <= screen_cols) =>
        cursor_col(St) <= screen_cols

\* C31: for every document and valid cursor, delete_char right after
\* insert_newline gives back the document and the cursor insert_newline
\* started from, with the backspace of src/editor and with that of src/main.rs.
C31_NewlineThenBackspace ==
    last_op = "insert_newline" =>
        LET back == delete_char(St)
        IN  /\ run = "running" /\ back.run = "running"
            /\ back.content = snap.e.content
            /\ back.cursor_y = snap.e.cursor_y
            /\ back.cursor_x = snap.e.cursor_x

\* a line of spaces split in its middle by the smart-indent program, and joined again
C31_SplitMidLineRejoined ==
    /\ last_op = "insert_newline" /\ variant = "main"
    /\ snap.e.cursor_x = 4 /\ Len(snap.e.content[snap.e.cursor_y + 1]) = 5
    /\ content[cursor_y] = <<" ", " ", " ", " ">>
    /\ delete_char(St).content = snap.e.content
    /\ delete_char(St).cursor_x = 4
=============================================================================
